---- MODULE Spec2Model ----
(***************************************************************************)
(* Model of the eCFR analysis backend (backend/analyzer.py,                *)
(* backend/fetcher.py, backend/main.py) and of the download form of the    *)
(* dashboard (frontend/app.py).                                            *)
(*                                                                         *)
(* Text is modelled as the sequence of its whitespace-delimited words: an  *)
(* element's stripped text is a sequence of words, " ".join(...) is        *)
(* concatenation, text.strip() is non-empty iff the sequence is non-empty  *)
(* and len(text.split()) is the length of the sequence.                    *)
(*                                                                         *)
(* A JSON object is a record; a key that is absent from the object is a    *)
(* field that is absent from the record (tested with DOMAIN).              *)
(*                                                                         *)
(* The endpoints are plain functions, which the server runs in worker      *)
(* threads: several requests are handled at a time and nothing serialises  *)
(* them.  A handler is a sequential process; each of its steps holds one   *)
(* access to the data folder or to the server (a test or a read of a file, *)
(* the call of requests.get, its answer and the opening of the file, the   *)
(* write of the file) followed by the statements up to the next access.    *)
(***************************************************************************)
EXTENDS Integers, Sequences, FiniteSets, TLC

VARIABLES agencies_data, cache, truncated, handlers, prev, fetched_ok, fn, served

vars == <<agencies_data, cache, truncated, handlers, prev, fetched_ok, fn, served>>

---------------------------------------------------------------------------
(* Bounds of the model *)

\* longest list of dates given to one historical request
MaxDates == 3
\* longest feed and longest reference list drawn for the index builder
MaxEntries == 2
MaxRefs == 2
\* most chapters of a document drawn for the parser
MaxChapters == 2
\* the worker threads of the server and the dashboard: the requests handled
\* at a time
MaxWorkers == 2
\* the requests a run serves
MaxRequests == 4
\* most titles selected in the download form
MaxSelected == 2

---------------------------------------------------------------------------
(* Generic helpers *)

Range(s) == {s[i] : i \in 1..Len(s)}

RECURSIVE Flatten(_)
Flatten(ss) == IF ss = <<>> THEN <<>> ELSE Head(ss) \o Flatten(Tail(ss))

SeqsUpTo(S, n) == UNION {[1..k -> S] : k \in 0..n}

\* str.upper() on the chapter codes that occur in the model
Upper(s) ==
    CASE s = "i" -> "I"
      [] s = "ii" -> "II"
      [] OTHER -> s

---------------------------------------------------------------------------
(* Documents: the XML of one title on one date.                            *)
(* pre: the words of the elements before the first chapter; chapters: the  *)
(* DIV3 TYPE=CHAPTER elements in document order, each with an optional N   *)
(* attribute, an optional HEAD child and the words of its other elements.  *)

Malformed == [wellformed |-> FALSE, pre |-> <<>>, chapters |-> <<>>]

Document(pre, chapters) == [wellformed |-> TRUE, pre |-> pre, chapters |-> chapters]

\* chapter_elem.attrib.get("N", "").upper()
chapter_number(ch) == Upper(IF "N" \in DOMAIN ch THEN ch.N ELSE "")

\* the stripped non-empty texts of chapter_elem.iter(), joined
chapter_blocks(ch) == (IF "HEAD" \in DOMAIN ch THEN ch.HEAD ELSE <<>>) \o ch.body

\* any(chap and chap.upper() == chapter_number for chap in target_chapters)
chapter_matches(ch, target_chapters) ==
    \E i \in 1..Len(target_chapters) :
        /\ target_chapters[i] # ""
        /\ Upper(target_chapters[i]) = chapter_number(ch)

\* heading of a chapter in sectioned mode
chapter_heading(ch) ==
    IF "HEAD" \in DOMAIN ch THEN ch.HEAD ELSE <<"Chapter", chapter_number(ch)>>

\* chapter_texts[heading] = ... for each chapter in turn (a dict: a later
\* chapter with the same heading overwrites the earlier one)
RECURSIVE chapter_texts(_, _, _)
chapter_texts(chapters, target_chapters, acc) ==
    IF chapters = <<>> THEN acc
    ELSE LET ch == Head(chapters)
             take == target_chapters = <<>> \/ chapter_matches(ch, target_chapters)
             h == chapter_heading(ch)
             acc1 == IF take
                     THEN [k \in DOMAIN acc \cup {h} |->
                             IF k = h THEN chapter_blocks(ch) ELSE acc[k]]
                     ELSE acc
         IN  chapter_texts(Tail(chapters), target_chapters, acc1)

EmptyDict == [k \in {} |-> <<>>]

\* parse_title_xml: target_chapters None is the empty sequence (the code
\* tests `not target_chapters`, true of None and of []).
\* Returns [ok |-> FALSE] when ET.parse raises, else [ok |-> TRUE, val |-> ...].
parse_title_xml(doc, target_chapters, return_sections) ==
    IF ~doc.wellformed THEN [ok |-> FALSE, val |-> <<>>]
    ELSE IF ~return_sections
    THEN IF target_chapters = <<>>
         THEN [ok |-> TRUE,
               val |-> doc.pre \o Flatten([i \in 1..Len(doc.chapters) |->
                                              chapter_blocks(doc.chapters[i])])]
         ELSE [ok |-> TRUE,
               val |-> Flatten([i \in 1..Len(doc.chapters) |->
                          IF chapter_matches(doc.chapters[i], target_chapters)
                          THEN chapter_blocks(doc.chapters[i]) ELSE <<>>])]
    ELSE [ok |-> TRUE, val |-> chapter_texts(doc.chapters, target_chapters, EmptyDict)]

---------------------------------------------------------------------------
(* Metrics *)

compute_word_count(text) == Len(text)

\* SHA-256 of the text: injective on the texts of the model
compute_checksum(text) == <<"sha256", text>>

\* Python's None where a complexity is expected (the except branch)
NoGrade == <<>>

\* textstat's grade of the text (an external library): an uninterpreted
\* value, or None when textstat.flesch_kincaid_grade raises
compute_complexity(text, raising) ==
    IF raising THEN NoGrade ELSE <<"fk_grade", text>>

---------------------------------------------------------------------------
(* Reference resolver *)

\* agency.get("display_name") or agency.get("name")
display_or_name(agency) ==
    IF "display_name" \in DOMAIN agency /\ agency.display_name # ""
    THEN agency.display_name ELSE agency.name

\* [ref["title"] for ref in agency.get("cfr_references") if "title" in ref]
ref_titles(refs) ==
    LET withTitle == SelectSeq(refs, LAMBDA ref : "title" \in DOMAIN ref)
    IN  [i \in 1..Len(withTitle) |-> withTitle[i].title]

\* agency_map[name] = {...}: a dict keeps the position of a key it already
\* holds and takes the new value
dict_set(agency_map, name, titles) ==
    IF \E i \in 1..Len(agency_map) : agency_map[i].id = name
    THEN [i \in 1..Len(agency_map) |->
            IF agency_map[i].id = name
            THEN [id |-> name, titles |-> titles, name |-> name]
            ELSE agency_map[i]]
    ELSE Append(agency_map, [id |-> name, titles |-> titles, name |-> name])

\* build_agency_title_map: the dict as the sequence of its items in
\* iteration order
RECURSIVE build_map(_, _)
build_map(agencies, agency_map) ==
    IF agencies = <<>> THEN agency_map
    ELSE LET agency == Head(agencies)
             titles == ref_titles(agency.cfr_references)
         IN  build_map(Tail(agencies),
                       IF titles # <<>>
                       THEN dict_set(agency_map, agency.name, titles)
                       ELSE agency_map)

build_agency_title_map(data) == build_map(data.agencies, <<>>)

map_keys(agency_map) == {agency_map[i].id : i \in 1..Len(agency_map)}

map_get(agency_map, id) ==
    agency_map[CHOOSE i \in 1..Len(agency_map) : agency_map[i].id = id]

\* Python's None where a chapter code is expected
None == "<None>"

\* cref.get("chapter")
get_chapter(cref) == IF "chapter" \in DOMAIN cref THEN cref.chapter ELSE None

\* the chapters of one agency entry for a title:
\* cref.get("title") == title_num and cref.get("chapter") is not None
entry_chapters(agency, title_num) ==
    LET hit == SelectSeq(agency.cfr_references,
                   LAMBDA cref : /\ "title" \in DOMAIN cref
                                 /\ cref.title = title_num
                                 /\ get_chapter(cref) # None)
    IN  [i \in 1..Len(hit) |-> get_chapter(hit[i])]

\* the list comprehension over agencies_data["agencies"]
listed_chapters(data, agency_id, title_num) ==
    Flatten([i \in 1..Len(data.agencies) |->
               IF display_or_name(data.agencies[i]) = agency_id
               THEN entry_chapters(data.agencies[i], title_num)
               ELSE <<>>])

\* relevant_chapters after
\*   if not relevant_chapters or any(chap is None for chap in relevant_chapters):
\*       relevant_chapters = None
\* (None as target_chapters is the empty sequence, see parse_title_xml)
relevant_chapters(data, agency_id, title_num) ==
    LET listed == listed_chapters(data, agency_id, title_num)
    IN  IF listed = <<>> \/ (\E i \in 1..Len(listed) : listed[i] = None)
        THEN <<>> ELSE listed

---------------------------------------------------------------------------
(* The eCFR server and the local data folder *)

D1 == "2024-01-01"
D2 == "2024-07-01"
Dates == {D1, D2}
Titles == {3, 5}
Keys == Titles \X Dates

\* what the server holds for (title, date); a 200 response stores it as
\* backend/data/title_<n>_<date>.xml
Remote(key) ==
    CASE key = <<3, D1>> ->
            Document(<<"t3">>,
                     << [N |-> "I", HEAD |-> <<"Chapter", "I">>, body |-> <<"x", "y">>],
                        [N |-> "II", HEAD |-> <<"Two">>, body |-> <<"z">>] >>)
      [] key = <<3, D2>> ->
            Document(<<"t3">>,
                     << [N |-> "I", HEAD |-> <<"Chapter", "I">>, body |-> <<"x", "y", "w">>],
                        [N |-> "ii", body |-> <<"z", "z">>] >>)
      [] key = <<5, D1>> -> Document(<<"a", "b", "c">>, <<>>)
      [] key = <<5, D2>> -> Malformed

\* what becomes of a request to the server: it is answered with status 200,
\* it is answered with another status, or requests.get raises (the host is
\* not reached)
Answers == {"200", "404", "raise"}

\* backend/data/agencies.json is not there
Missing == [missing |-> TRUE]

\* agencies.json is opened for writing and json.dump has not finished: the
\* file is there and holds no complete JSON text
Partial == [partial |-> TRUE]

\* the request of fetch_agencies, where the requests of fetch_full_title_xml
\* have a (title, date)
AgenciesKey == <<0, "agencies.json">>

NoKey == <<0, "">>

\* os.path.exists(xml_file)
file_exists(files, key) == key \in files

\* what a reader finds in the file of (title, date): what the server sent,
\* or, between open(fname, "wb") and the end of f.write, a file that is not
\* whole, on which ET.parse raises
content(empty, key) == IF key \in empty THEN Malformed ELSE Remote(key)

\* the value fetch_full_title_xml returns once requests.get has returned
fetch_full_title_xml(status) == status = "200"

\* resp.raise_for_status() of fetch_agencies lets the response through
fetch_agencies(status) == status = "200"

\* agencies.json after json.dump of body: the writer opened the file before
\* and writes from its start; over a complete text another writer has put
\* there since, the end of that text may stay behind (garbled)
dumped(current, body, garbled) ==
    IF garbled /\ current \notin {Partial, body} THEN Partial ELSE body

---------------------------------------------------------------------------
(* A handler: one request being served.  pc is where it stands, before an  *)
(* access to what the handlers share:                                      *)
(*   "idle"    no request                                                  *)
(*   "load"    load_json is about to test and read agencies.json           *)
(*   "title"   analyze_agencies is about to test the file of a title       *)
(*   "stitle"  extract_relevant_text_for_agency is about to test a file    *)
(*   "fetch"   a file was found missing, requests.get is not yet called    *)
(*   "wait"    requests.get is waiting for the server                      *)
(*   "write"   the file is opened for writing and not yet written          *)
(*   "parse"   analyze_agencies is about to parse the file it fetched      *)
(*   "exists"  extract_relevant_text_for_agency is about to test the file  *)
(*             again and parse it                                          *)
(*   "grade"   compute_complexity is about to call textstat                *)
(*   (the download form goes from "fetch" to "write" for each title)       *)
(*   "done"    the endpoint has returned or raised                         *)
(* and, between two of these, the statements of the code in their order.   *)

Idle ==
    [pc |-> "idle", op |-> "none", agency |-> "", dates |-> <<>>, date_ix |-> 0,
     data |-> Missing, todo |-> <<>>, titles |-> <<>>,
     combined_text |-> <<>>, total_word_count |-> 0, analyzed_titles |-> <<>>,
     results |-> EmptyDict, metrics |-> <<>>, history |-> EmptyDict,
     sections |-> EmptyDict, names |-> <<>>, target |-> NoKey, body |-> Missing,
     log |-> <<>>,
     raised |-> "", at |-> NoKey, short |-> FALSE, response |-> ""]

\* no agency filter (None, or the empty string)
NoFilter == ""

\* the request as it reaches its endpoint
request(op, agency, dates) ==
    [Idle EXCEPT !.pc = "enter", !.op = op, !.agency = agency, !.dates = dates,
                 !.date_ix = 1]

\* the download form is submitted with the selected titles and a date
download(titles, date) ==
    [Idle EXCEPT !.pc = "dtitles", !.op = "download", !.titles = titles,
                 !.dates = <<date>>, !.date_ix = 1]

\* the date of the analyze_agencies call in progress
current_date(h) == h.dates[h.date_ix]

\* the file the handler is at
current_key(h) == <<Head(h.titles), current_date(h)>>

\* the agency whose titles the handler is going through
current_agency(h) == IF h.op = "sections" THEN h.agency ELSE Head(h.todo).id

\* an exception leaves the endpoint (the server answers 500)
raises(h, exc) ==
    [Idle EXCEPT !.pc = "done", !.op = h.op, !.agency = h.agency, !.dates = h.dates,
                 !.data = h.data, !.metrics = h.metrics, !.log = h.log,
                 !.raised = exc, !.response = "500"]

\* ET.parse raises on the file of key; short: the file was found empty
parse_error(h, key, short) ==
    [raises(h, "ParseError") EXCEPT !.at = key, !.short = short]

\* the endpoint returns
returns(h, response) ==
    [Idle EXCEPT !.pc = "done", !.op = h.op, !.agency = h.agency, !.dates = h.dates,
                 !.data = h.data, !.metrics = h.metrics, !.log = h.log,
                 !.results = h.results, !.history = h.history,
                 !.sections = h.sections, !.names = h.names,
                 !.response = response]

\* historical: `if not agency: raise HTTPException(status_code=400, ...)`
historical(h) ==
    IF h.op = "compare" /\ h.agency = NoFilter
    THEN returns(h, "400")
    ELSE [h EXCEPT !.pc = "load"]

\* load_json: agencies.json is read when it is there, else fetch_agencies
\* is called; json.load raises on a file that is being written
load_json(h, feed) ==
    IF feed = Missing
    THEN [h EXCEPT !.pc = "fetch", !.target = AgenciesKey]
    ELSE IF feed = Partial
    THEN raises(h, "JSONDecodeError")
    ELSE [h EXCEPT !.pc = "loaded", !.data = feed]

\* the place of a name in the order of sorted()
Alphabet == <<"A", "B", "C", "D", "Dept D", "E", "F">>

Rank(name) == CHOOSE i \in 1..Len(Alphabet) : Alphabet[i] = name

\* get_agencies: the sorted display names (or names) of the feed
get_agencies(h) ==
    LET shown == [i \in 1..Len(h.data.agencies) |->
                     display_or_name(h.data.agencies[i])]
    IN  returns([h EXCEPT !.names = SortSeq(shown, LAMBDA x, y : Rank(x) < Rank(y))],
                "200")

\* `for title in selected_titles` of the download form
next_download(h) ==
    IF h.titles = <<>> THEN returns(h, "200")
    ELSE [h EXCEPT !.pc = "fetch", !.target = current_key(h)]

---------------------------------------------------------------------------
(* Agency analyzer *)

\* mutant: the file is fetched whether it is there or not
needs_fetch_always(files, key) == TRUE

\* if not os.path.exists(xml_file)
needs_fetch(files, key) == ~file_exists(files, key)

\* text.strip() is truthy
has_text(text) == text # <<>>

\* `if combined_text.strip()` before the record is built
has_data(combined_text) == combined_text # <<>>

\* analyze_agencies after load_json: the index and an empty result
begin_analyze(h) ==
    [h EXCEPT !.pc = "agency", !.todo = build_agency_title_map(h.data),
              !.results = EmptyDict]

\* the per-agency accumulators at the top of the loop body
fresh(h) ==
    [h EXCEPT !.combined_text = <<>>, !.total_word_count = 0,
              !.analyzed_titles = <<>>]

\* `for agency_id, info in agency_map.items()`, with the filter
next_agency(h) ==
    IF h.todo = <<>> THEN [h EXCEPT !.pc = "return"]
    ELSE IF h.agency # NoFilter /\ Head(h.todo).id # h.agency
    THEN [h EXCEPT !.todo = Tail(@)]
    ELSE [fresh(h) EXCEPT !.pc = "titles", !.titles = Head(h.todo).titles]

\* `for title_num in info["titles"]`
next_title(h) ==
    IF h.titles = <<>> THEN [h EXCEPT !.pc = "build"] ELSE [h EXCEPT !.pc = "title"]

\* the file is opened: its chapters are looked up, it is parsed and its text
\* is added
analyze_title(h, empty) ==
    LET title_num == Head(h.titles)
        chapters == relevant_chapters(h.data, current_agency(h), title_num)
        parsed == parse_title_xml(content(empty, current_key(h)), chapters, FALSE)
    IN  IF ~parsed.ok THEN parse_error(h, current_key(h), current_key(h) \in empty)
        ELSE IF has_text(parsed.val)
        THEN [h EXCEPT !.pc = "titles", !.titles = Tail(@), !.target = NoKey,
                       !.total_word_count = @ + compute_word_count(parsed.val),
                       !.combined_text = @ \o parsed.val,
                       !.analyzed_titles = Append(@, title_num)]
        ELSE [h EXCEPT !.pc = "titles", !.titles = Tail(@), !.target = NoKey]

\* the test of the file of a title: it is fetched when it is missing, else
\* it is parsed (a file that is there stays there: the moment of the test
\* makes no difference, that of the read does)
test_title(h, files, empty) ==
    IF needs_fetch(files, current_key(h))
    THEN [h EXCEPT !.pc = "fetch", !.target = current_key(h)]
    ELSE analyze_title(h, empty)

\* after the titles of an agency: a record is built when there is text
end_agency(h) ==
    IF has_data(h.combined_text)
    THEN [h EXCEPT !.pc = "grade"]
    ELSE [h EXCEPT !.pc = "agency", !.todo = Tail(@)]

\* the record built for an agency
metrics_record(info, h, raising) ==
    [agency_name |-> info.name,
     word_count |-> h.total_word_count,
     checksum |-> compute_checksum(h.combined_text),
     complexity |-> compute_complexity(h.combined_text, raising),
     titles_count |-> Len(h.analyzed_titles),
     titles_analyzed |-> h.analyzed_titles]

\* results[agency_id] = {...}
put(dict, k, v) == [x \in DOMAIN dict \cup {k} |-> IF x = k THEN v ELSE dict[x]]

\* textstat has returned or raised: the record is stored
graded(h, raising) ==
    [h EXCEPT !.pc = "agency", !.todo = Tail(@),
              !.results = put(@, Head(h.todo).id,
                              metrics_record(Head(h.todo), h, raising))]

---------------------------------------------------------------------------
(* Sections of an agency *)

\* extract_relevant_text_for_agency after load_json:
\* `info = agency_map[agency_name]` comes before the
\* `agency_name not in agency_map` test
begin_extract(h) ==
    LET agency_map == build_agency_title_map(h.data)
    IN  IF h.agency \notin map_keys(agency_map)
        THEN raises(h, "KeyError")
        ELSE [h EXCEPT !.pc = "stitles", !.sections = EmptyDict,
                       !.titles = map_get(agency_map, h.agency).titles]

\* get_agency_sections: 404 when no section was found
get_agency_sections(sections) == IF sections = EmptyDict THEN "404" ELSE "200"

\* `for title_num in info["titles"]`
next_section_title(h) ==
    IF h.titles = <<>> THEN returns(h, get_agency_sections(h.sections))
    ELSE [h EXCEPT !.pc = "stitle"]

\* for heading, text in chapter_text.items(): if text.strip(): sections[heading] = text
merge_sections(sections, chapter_text) ==
    LET keep == {x \in DOMAIN chapter_text : has_text(chapter_text[x])}
    IN  [x \in DOMAIN sections \cup keep |->
            IF x \in keep THEN chapter_text[x] ELSE sections[x]]

\* `if os.path.exists(xml_file)`: the sections of the file are added
extract_title(h, files, empty) ==
    IF ~file_exists(files, current_key(h))
    THEN [h EXCEPT !.pc = "stitles", !.titles = Tail(@), !.target = NoKey]
    ELSE LET chapters == relevant_chapters(h.data, h.agency, Head(h.titles))
             parsed == parse_title_xml(content(empty, current_key(h)), chapters, TRUE)
         IN  IF ~parsed.ok
             THEN parse_error(h, current_key(h), current_key(h) \in empty)
             ELSE [h EXCEPT !.pc = "stitles", !.titles = Tail(@), !.target = NoKey,
                            !.sections = merge_sections(@, parsed.val)]

\* the first test of the file: it is fetched when it is missing, else the
\* second test finds it too and it is parsed
test_section_title(h, files, empty) ==
    IF needs_fetch(files, current_key(h))
    THEN [h EXCEPT !.pc = "fetch", !.target = current_key(h)]
    ELSE extract_title(h, files, empty)

---------------------------------------------------------------------------
(* Historical differ *)

\* history[agency][date] = {word_count, checksum, complexity}
record_metrics(history, results, date) ==
    [a \in DOMAIN history \cup DOMAIN results |->
        IF a \in DOMAIN results
        THEN put(IF a \in DOMAIN history THEN history[a] ELSE EmptyDict, date,
                 [word_count |-> results[a].word_count,
                  checksum |-> results[a].checksum,
                  complexity |-> results[a].complexity])
        ELSE history[a]]

\* if len(dates) == 2
two_dates(dates) == Len(dates) = 2

\* mutant: the delta taken from end to start
delta_of_reversed(start_rec, end_rec) ==
    [word_count |-> start_rec.word_count - end_rec.word_count,
     complexity_change |-> NoGrade]

\* the delta of two records
delta_of(start_rec, end_rec) ==
    [word_count |-> end_rec.word_count - start_rec.word_count,
     complexity_change |->
        IF end_rec.complexity # NoGrade /\ start_rec.complexity # NoGrade
        THEN <<"minus", end_rec.complexity, start_rec.complexity>>
        ELSE NoGrade]

\* records["delta"] = delta for the agencies with both dates
add_deltas(history, dates) ==
    IF two_dates(dates)
    THEN LET start == dates[1]
             end == dates[2]
         IN  [a \in DOMAIN history |->
                IF start \in DOMAIN history[a] /\ end \in DOMAIN history[a]
                THEN put(history[a], "delta", delta_of(history[a][start], history[a][end]))
                ELSE history[a]]
    ELSE history

\* analyze_agencies has returned inside analyze_agencies_over_time: its
\* records go into the history, then the next date, or the deltas
next_date(h) ==
    LET h1 == [h EXCEPT !.metrics = Append(@, h.results),
                        !.history = record_metrics(@, h.results, current_date(h))]
    IN  IF h.date_ix < Len(h.dates)
        THEN [h1 EXCEPT !.pc = "load", !.date_ix = @ + 1]
        ELSE returns([h1 EXCEPT !.history = add_deltas(@, h.dates)], "200")

---------------------------------------------------------------------------
(* The handler from one access to the next *)

Stops == {"idle", "load", "title", "stitle", "fetch", "wait", "write", "parse",
          "exists", "grade", "done"}

\* the next statement of the handler, where it touches nothing shared
step(h) ==
    CASE h.pc = "enter"   -> historical(h)
      [] h.pc = "loaded"  -> IF h.op = "agencies" THEN get_agencies(h)
                             ELSE IF h.op = "sections" THEN begin_extract(h)
                             ELSE begin_analyze(h)
      [] h.pc = "agency"  -> next_agency(h)
      [] h.pc = "titles"  -> next_title(h)
      [] h.pc = "build"   -> end_agency(h)
      [] h.pc = "return"  -> IF h.op = "compare" THEN next_date(h)
                                                 ELSE returns(h, "200")
      [] h.pc = "stitles" -> next_section_title(h)
      [] h.pc = "dtitles" -> next_download(h)

\* the handler runs on to its next access, or to its end
RECURSIVE run(_)
run(h) == IF h.pc \in Stops THEN h ELSE run(step(h))

\* requests.get is called: the request is noted
issued(h) ==
    [h EXCEPT !.pc = "wait",
              !.log = Append(@,
                 [agency |-> IF h.target = AgenciesKey \/ h.op = "download"
                             THEN "" ELSE current_agency(h),
                  key |-> h.target,
                  status |-> ""])]

\* the status of the answer is noted
answered(h, status) == [h EXCEPT !.log[Len(h.log)].status = status]

\* the handler after requests.get: the exception propagates, the file is
\* opened for writing, or the caller of the fetch goes on
arrived(h, status, answer) ==
    IF status = "raise" THEN raises(h, "ConnectionError")
    ELSE IF h.target = AgenciesKey
    THEN IF fetch_agencies(status)
         THEN [h EXCEPT !.pc = "write", !.body = answer]
         ELSE raises(h, "HTTPError")
    ELSE IF fetch_full_title_xml(status)
    THEN [h EXCEPT !.pc = "write"]
    ELSE IF h.op = "download"
    THEN \* failures.append(title)
         [h EXCEPT !.pc = "dtitles", !.titles = Tail(@), !.target = NoKey]
    ELSE IF h.op = "sections"
    THEN [h EXCEPT !.pc = "exists", !.target = NoKey]
    ELSE \* `if not success: continue`
         [h EXCEPT !.pc = "titles", !.titles = Tail(@), !.target = NoKey]

\* the handler after the write of the file: load_json tests and reads
\* agencies.json, the download form goes to its next title,
\* analyze_agencies parses the title,
\* extract_relevant_text_for_agency tests the file again
written(h) ==
    IF h.target = AgenciesKey
    THEN [h EXCEPT !.pc = "load", !.target = NoKey, !.body = Missing]
    ELSE IF h.op = "download"
    THEN \* successes.append(title)
         [h EXCEPT !.pc = "dtitles", !.titles = Tail(@), !.target = NoKey]
    ELSE IF h.op = "sections"
    THEN [h EXCEPT !.pc = "exists", !.target = NoKey]
    ELSE [h EXCEPT !.pc = "parse", !.target = NoKey]

---------------------------------------------------------------------------
(* The metadata feed (agencies.json) and the requests *)

Feed ==
    [agencies |-> <<
        [name |-> "A", cfr_references |-> << [title |-> 3, chapter |-> "I"] >>],
        [name |-> "B", cfr_references |-> << [title |-> 3], [title |-> 5] >>],
        [name |-> "C", cfr_references |-> << [title |-> 5, chapter |-> "I"],
                                              [title |-> 5] >>],
        [name |-> "D", display_name |-> "Dept D",
         cfr_references |-> << [title |-> 3, chapter |-> "ii"] >>],
        [name |-> "E", cfr_references |-> <<>>] >>]

\* a feed with a repeated name and several references to one title
Feed2 ==
    [agencies |-> <<
        [name |-> "A", cfr_references |-> << [title |-> 3, chapter |-> "i"] >>],
        [name |-> "F", cfr_references |-> << [title |-> 3, chapter |-> "I"],
                                              [title |-> 3, chapter |-> "II"] >>],
        [name |-> "A", cfr_references |-> << [title |-> 5] >>] >>]

Feeds == {Feed, Feed2}

\* agency names a request may carry ("Z" is in no feed)
AgencyNames == {"A", "B", "C", "D", "F", "Z"}

\* the requests handled at a time
Slots == 1..MaxWorkers

NoFn == [op |-> "none", done |-> TRUE, data |-> [agencies |-> <<>>],
         doc |-> Malformed, target |-> <<>>, out |-> <<>>]

\* what is kept of an answered historical request
NoPrev == [agency |-> "", dates |-> <<>>, deltas |-> EmptyDict,
           fetched |-> FALSE, failed |-> {}]

Init ==
    /\ agencies_data \in Feeds \cup {Missing}
    /\ cache = {}
    /\ truncated = {}
    /\ handlers = [i \in Slots |-> Idle]
    /\ prev = NoPrev
    /\ fetched_ok = {}
    /\ fn = NoFn
    /\ served = 0

\* a request reaches its endpoint in a free worker (the free worker of the
\* lowest number: the workers are alike)
Begin(i, entered) ==
    /\ handlers[i].pc = "idle"
    /\ \A j \in DOMAIN handlers : j < i => handlers[j].pc # "idle"
    /\ served < MaxRequests
    /\ served' = served + 1
    /\ handlers' = [handlers EXCEPT ![i] = run(entered)]
    /\ UNCHANGED <<agencies_data, cache, truncated, prev, fetched_ok, fn>>

\* GET /api/wordcount, /api/checksums, /api/complexity: analyze_agencies
Analyze(i, agency_filter, date) ==
    Begin(i, request("analyze", agency_filter, <<date>>))

\* GET /api/agency_sections: extract_relevant_text_for_agency
Sections(i, agency, date) == Begin(i, request("sections", agency, <<date>>))

\* GET /api/historical: analyze_agencies_over_time
Compare(i, agency, dates) == Begin(i, request("compare", agency, dates))

\* GET /api/agencies: load_json and the sorted names
GetAgencies(i) == Begin(i, request("agencies", NoFilter, <<>>))

\* "Download Selected Titles" of the dashboard (started in the repository
\* root, so that backend/data is the folder of the server):
\* fetch_full_title_xml for each selected title, with no test of the file
Download(i, titles, date) == Begin(i, download(titles, date))

\* load_json tests and reads agencies.json
Load(i) ==
    /\ handlers[i].pc = "load"
    /\ handlers' = [handlers EXCEPT ![i] = run(load_json(@, agencies_data))]
    /\ UNCHANGED <<agencies_data, cache, truncated, prev, fetched_ok, fn, served>>

\* analyze_agencies tests the file of the next title and, when it is
\* there, parses it
Title(i) ==
    /\ handlers[i].pc = "title"
    /\ handlers' = [handlers EXCEPT ![i] = run(test_title(@, cache, truncated))]
    /\ UNCHANGED <<agencies_data, cache, truncated, prev, fetched_ok, fn, served>>

\* extract_relevant_text_for_agency tests the file of the next title and,
\* when it is there, parses it
SectionTitle(i) ==
    /\ handlers[i].pc = "stitle"
    /\ handlers' = [handlers EXCEPT ![i] =
                       run(test_section_title(@, cache, truncated))]
    /\ UNCHANGED <<agencies_data, cache, truncated, prev, fetched_ok, fn, served>>

\* the handler calls requests.get
Issue(i) ==
    /\ handlers[i].pc = "fetch"
    /\ handlers' = [handlers EXCEPT ![i] = issued(@)]
    /\ UNCHANGED <<agencies_data, cache, truncated, prev, fetched_ok, fn, served>>

\* requests.get returns or raises; on status 200 the file is opened for
\* writing, which creates it or empties it.  answer is the feed the server
\* sends.
Arrive(i, status, answer) ==
    /\ handlers[i].pc = "wait"
    /\ LET h == handlers[i]
           opened == IF h.target = AgenciesKey THEN fetch_agencies(status)
                                               ELSE fetch_full_title_xml(status)
       IN  /\ agencies_data' = IF opened /\ h.target = AgenciesKey
                               THEN Partial ELSE agencies_data
           /\ cache' = IF opened /\ h.target # AgenciesKey
                       THEN cache \cup {h.target} ELSE cache
           /\ truncated' = IF opened /\ h.target # AgenciesKey
                           THEN truncated \cup {h.target} ELSE truncated
           /\ handlers' = [handlers EXCEPT ![i] =
                              run(arrived(answered(h, status), status, answer))]
    /\ UNCHANGED <<prev, fetched_ok, fn, served>>

\* json.dump, or f.write(response.content), and the file is closed:
\* fetch_full_title_xml returns True
Write(i, garbled) ==
    /\ handlers[i].pc = "write"
    /\ LET h == handlers[i]
       IN  /\ agencies_data' = IF h.target = AgenciesKey
                               THEN dumped(agencies_data, h.body, garbled)
                               ELSE agencies_data
           /\ truncated' = truncated \ {h.target}
           /\ fetched_ok' = IF h.target = AgenciesKey
                            THEN fetched_ok ELSE fetched_ok \cup {h.target}
           /\ handlers' = [handlers EXCEPT ![i] = run(written(h))]
    /\ UNCHANGED <<cache, prev, fn, served>>

\* analyze_agencies parses the file it has fetched
Parse(i) ==
    /\ handlers[i].pc = "parse"
    /\ handlers' = [handlers EXCEPT ![i] = run(analyze_title(@, truncated))]
    /\ UNCHANGED <<agencies_data, cache, truncated, prev, fetched_ok, fn, served>>

\* extract_relevant_text_for_agency tests the file after the fetch and
\* parses it
Exists(i) ==
    /\ handlers[i].pc = "exists"
    /\ handlers' = [handlers EXCEPT ![i] = run(extract_title(@, cache, truncated))]
    /\ UNCHANGED <<agencies_data, cache, truncated, prev, fetched_ok, fn, served>>

\* textstat.flesch_kincaid_grade returns or raises
Grade(i, raising) ==
    /\ handlers[i].pc = "grade"
    /\ handlers' = [handlers EXCEPT ![i] = run(graded(@, raising))]
    /\ UNCHANGED <<agencies_data, cache, truncated, prev, fetched_ok, fn, served>>

\* the response has gone out: the worker is free
Deliver(i) ==
    /\ handlers[i].pc = "done"
    /\ handlers' = [handlers EXCEPT ![i] = Idle]
    /\ UNCHANGED <<agencies_data, cache, truncated, prev, fetched_ok, fn, served>>

DateLists == SeqsUpTo(Dates, MaxDates) \ {<<>>}

\* the requests drawn
AnalyzeRequests == (AgencyNames \cup {NoFilter}) \X Dates

SectionsRequests == AgencyNames \X Dates

CompareRequests == (AgencyNames \cup {NoFilter}) \X DateLists

\* the multiselect gives the selected titles once each, in any order
Selections ==
    {s \in SeqsUpTo(Titles, MaxSelected) \ {<<>>} :
        \A j, k \in 1..Len(s) : s[j] = s[k] => j = k}

DownloadRequests == Selections \X Dates

DoAnalyze ==
    \E i \in DOMAIN handlers, r \in AnalyzeRequests : Analyze(i, r[1], r[2])

DoSections ==
    \E i \in DOMAIN handlers, r \in SectionsRequests : Sections(i, r[1], r[2])

DoCompare ==
    \E i \in DOMAIN handlers, r \in CompareRequests : Compare(i, r[1], r[2])

DoGetAgencies == \E i \in DOMAIN handlers : GetAgencies(i)

DoDownload ==
    \E i \in DOMAIN handlers, r \in DownloadRequests : Download(i, r[1], r[2])

DoLoad == \E i \in DOMAIN handlers : Load(i)

DoTitle == \E i \in DOMAIN handlers : Title(i)

DoSectionTitle == \E i \in DOMAIN handlers : SectionTitle(i)

DoIssue == \E i \in DOMAIN handlers : Issue(i)

DoArrive ==
    \E i \in DOMAIN handlers, status \in Answers :
        \E answer \in IF handlers[i].target = AgenciesKey /\ status = "200"
                      THEN Feeds ELSE {Missing} :
            Arrive(i, status, answer)

DoWrite == \E i \in DOMAIN handlers, garbled \in BOOLEAN : Write(i, garbled)

DoParse == \E i \in DOMAIN handlers : Parse(i)

DoExists == \E i \in DOMAIN handlers : Exists(i)

DoGrade == \E i \in DOMAIN handlers, raising \in BOOLEAN : Grade(i, raising)

DoDeliver == \E i \in DOMAIN handlers : Deliver(i)

\* the steps of the handlers
Handle ==
    \/ DoLoad \/ DoTitle \/ DoSectionTitle \/ DoIssue \/ DoArrive \/ DoWrite
    \/ DoParse \/ DoExists \/ DoGrade

\* a request arrives
Arrival == DoAnalyze \/ DoSections \/ DoCompare \/ DoGetAgencies \/ DoDownload

Next == Arrival \/ Handle \/ DoDeliver

Spec == Init /\ [][Next]_vars

---------------------------------------------------------------------------
(* The calls made one after the other: a request arrives when no other is  *)
(* being handled                                                           *)

Quiet == \A i \in DOMAIN handlers : handlers[i].pc = "idle"

NextSeq ==
    \/ Quiet /\ DoAnalyze
    \/ Quiet /\ DoSections
    \/ Quiet /\ DoCompare
    \/ Quiet /\ DoGetAgencies
    \/ Quiet /\ DoDownload
    \/ Handle
    \/ DoDeliver

SpecSeq == Init /\ [][NextSeq]_vars

---------------------------------------------------------------------------
(* Historical requests of one client, one after the other *)

\* the word-count deltas of an answered request
DeltasOf(history) ==
    LET with == {a \in DOMAIN history : "delta" \in DOMAIN history[a]}
    IN  [a \in with |-> history[a]["delta"].word_count]

InitHist ==
    /\ agencies_data \in Feeds \cup {Missing}
    /\ cache = {}
    /\ truncated = {}
    /\ handlers = [i \in {1} |-> Idle]
    /\ prev = NoPrev
    /\ fetched_ok = {}
    /\ fn = NoFn
    /\ served = 0

\* GET /api/historical with a start and an end date
DoHistorical ==
    \E a \in AgencyNames, ds \in [1..2 -> Dates] : Compare(1, a, ds)

\* the response has gone out and is remembered
DeliverHistorical ==
    /\ handlers[1].pc = "done"
    /\ prev' = [agency |-> handlers[1].agency, dates |-> handlers[1].dates,
                deltas |-> DeltasOf(handlers[1].history),
                fetched |-> \E k \in 1..Len(handlers[1].log) :
                               handlers[1].log[k].status = "200",
                failed |-> {handlers[1].log[k].key :
                              k \in {j \in 1..Len(handlers[1].log) :
                                        handlers[1].log[j].status # "200"}}]
    /\ handlers' = [handlers EXCEPT ![1] = Idle]
    /\ UNCHANGED <<agencies_data, cache, truncated, fetched_ok, fn, served>>

NextHist ==
    \/ DoHistorical
    \/ DoLoad \/ DoTitle \/ DoIssue \/ DoArrive \/ DoWrite \/ DoParse \/ DoGrade
    \/ DeliverHistorical

SpecHist == InitHist /\ [][NextHist]_vars

---------------------------------------------------------------------------
(* The index builder and the sectioned parser on drawn inputs *)

RefSet == {[title |-> 3], [title |-> 5, chapter |-> "I"], [chapter |-> "II"]}

EntrySet ==
    {[name |-> n, cfr_references |-> refs] :
        n \in {"A", "B"}, refs \in SeqsUpTo(RefSet, MaxRefs)}

FeedSet == {[agencies |-> es] : es \in SeqsUpTo(EntrySet, MaxEntries)}

ChapterSet ==
    {[N |-> n, HEAD |-> h, body |-> b] :
        n \in {"I", "ii"}, h \in {<<"Same">>, <<"Chapter", "I">>}, b \in {<<"x">>, <<>>}}
    \cup {[N |-> n, body |-> b] : n \in {"I", "ii"}, b \in {<<"x">>, <<>>}}
    \cup {[HEAD |-> <<"Same">>, body |-> <<"x">>], [body |-> <<"x">>]}

\* chapter codes are unique within a document, compared case-insensitively
DocSet ==
    {Document(<<"t">>, cs) : cs \in
        {c \in SeqsUpTo(ChapterSet, MaxChapters) :
            \A i, j \in 1..Len(c) :
                chapter_number(c[i]) = chapter_number(c[j]) => i = j}}

TargetSet == {<<>>, <<"i">>, <<"I", "II">>, <<"II", "">>}

PureInit ==
    /\ agencies_data = Feed
    /\ cache = {}
    /\ truncated = {}
    /\ handlers = [i \in Slots |-> Idle]
    /\ prev = NoPrev
    /\ fetched_ok = {}
    /\ served = 0
    /\ fn \in {[NoFn EXCEPT !.op = "build", !.done = FALSE, !.data = f] : f \in FeedSet}
          \cup {[NoFn EXCEPT !.op = "parse", !.done = FALSE, !.doc = d, !.target = t] :
                   d \in DocSet, t \in TargetSet}

BuildIndex ==
    /\ fn.op = "build" /\ ~fn.done
    /\ fn' = [fn EXCEPT !.done = TRUE, !.out = build_agency_title_map(fn.data)]
    /\ UNCHANGED <<agencies_data, cache, truncated, handlers, prev, fetched_ok, served>>

ParseSections ==
    /\ fn.op = "parse" /\ ~fn.done
    /\ fn' = [fn EXCEPT !.done = TRUE,
                        !.out = parse_title_xml(fn.doc, fn.target, TRUE).val]
    /\ UNCHANGED <<agencies_data, cache, truncated, handlers, prev, fetched_ok, served>>

PureNext == BuildIndex \/ ParseSections

PureSpec == PureInit /\ [][PureNext]_vars


---------------------------------------------------------------------------
(* What the claims speak of.  h is a handler at its end: the request whose *)
(* endpoint has returned or raised.                                        *)

Ended == {handlers[i] : i \in {j \in DOMAIN handlers : handlers[j].pc = "done"}}

\* the index the request built from the feed it loaded
Index(h) ==
    IF h.data \in {Missing, Partial} THEN <<>> ELSE build_agency_title_map(h.data)

\* the agencies the request goes through
InScope(h) == {a \in map_keys(Index(h)) : h.agency = NoFilter \/ a = h.agency}

\* the documents an indexed agency references
TitlesOf(h, a) == Range(map_get(Index(h), a).titles)

Count(seq, x) == Cardinality({i \in 1..Len(seq) : seq[i] = x})

\* how often the agency's index entry lists the document
Listed(h, a, t) == Count(map_get(Index(h), a).titles, t)

\* the fetches of the request for a document of an agency that failed
Failed(h, a, key) ==
    {k \in 1..Len(h.log) : /\ h.log[k].agency = a
                           /\ h.log[k].key = key
                           /\ h.log[k].status # "200"}

\* some fetch of the request for a document failed
FailedKeys(h) == {h.log[k].key : k \in {j \in 1..Len(h.log) :
                                          /\ h.log[j].key # AgenciesKey
                                          /\ h.log[j].status # "200"}}

\* the request had the document at hand for the agency: the file
\* was there or a fetch stored it
Available(h, a, t, d) == Cardinality(Failed(h, a, <<t, d>>)) < Listed(h, a, t)

\* the flat text of (title, date) under the filter used for the agency
FlatText(h, a, t, d) ==
    parse_title_xml(Remote(<<t, d>>), relevant_chapters(h.data, a, t), FALSE).val

\* the whole flat text of (title, date)
WholeText(t, d) == parse_title_xml(Remote(<<t, d>>), <<>>, FALSE).val

\* the document was at hand and yields non-empty text
Contributes(h, a, t, d) == Available(h, a, t, d) /\ FlatText(h, a, t, d) # <<>>

\* the contributing documents the analyze reports for an agency
Analyzed(h, a) ==
    IF a \in DOMAIN h.results THEN Range(h.results[a].titles_analyzed) ELSE {}

Returned(h, op) == h.op = op /\ h.raised = ""

\* requests.get raised in a fetch of a document
FetchRaised(h) ==
    /\ h.raised = "ConnectionError"
    /\ h.log[Len(h.log)].key # AgenciesKey

---------------------------------------------------------------------------
\* C1: in analyze, a document whose fetch fails is skipped and the rest of
\* the agency's documents are processed: a failed fetch never makes the
\* call raise, the document is not among the agency's contributing
\* documents when each of its fetches failed, and every document at hand
\* with non-empty text is.
C1_FetchFailureSkipped ==
    \A h \in Ended :
        h.op = "analyze" =>
            /\ ~FetchRaised(h)
            /\ h.raised = "" =>
                 \A a \in InScope(h) : \A t \in TitlesOf(h, a) :
                    /\ ~Available(h, a, t, h.dates[1]) => t \notin Analyzed(h, a)
                    /\ Contributes(h, a, t, h.dates[1]) => t \in Analyzed(h, a)

\* C2: a malformed document is treated like a fetch failure: analyze
\* returns a result and does not abort with the parse error.
C2_ParseErrorContained ==
    \A h \in Ended :
        h.op = "analyze" => ~(h.raised = "ParseError" /\ ~h.short)

\* C3: analyze holds a record for an agency iff one of its documents
\* contributed non-empty text; an agency whose documents are all
\* unavailable, or whose chapter filter matches no text, is absent from the
\* result and no error is raised for it; every record has
\* titles_count >= 1 and word_count >= 1.
C3_RecordIffContributed ==
    \A h \in Ended :
        h.op = "analyze" =>
            /\ ~FetchRaised(h)
            /\ h.raised = "" =>
                 /\ \A a \in map_keys(Index(h)) \cup AgencyNames :
                       a \in DOMAIN h.results <=>
                          /\ a \in InScope(h)
                          /\ \E t \in TitlesOf(h, a) : Contributes(h, a, t, h.dates[1])
                 /\ \A a \in DOMAIN h.results :
                       /\ h.results[a].titles_count >= 1
                       /\ h.results[a].word_count >= 1

\* the request has a record of the agency for the date
HasRecord(h, a, d) ==
    \E k \in 1..Len(h.metrics) : h.dates[k] = d /\ a \in DOMAIN h.metrics[k]

\* C4: compare returns every requested entity with exactly the dates on
\* which it has a record (none when no date succeeded), and attaches a delta
\* to it iff exactly two dates were given and it has a record on both.
C4_DeltaIffTwoDates ==
    \A h \in Ended :
        (Returned(h, "compare") /\ h.response = "200") =>
            \A a \in InScope(h) :
                /\ a \in DOMAIN h.history
                /\ \A d \in Dates : d \in DOMAIN h.history[a] <=> HasRecord(h, a, d)
                /\ "delta" \in DOMAIN h.history[a] <=>
                      /\ Len(h.dates) = 2
                      /\ HasRecord(h, a, h.dates[1])
                      /\ HasRecord(h, a, h.dates[2])

\* C6: the chapter filter is none when any of the agency's references to
\* the document has no chapter code: the agency is then analyzed over the
\* whole document.
C6_MissingChapterMeansWhole ==
    \A h \in Ended :
        Returned(h, "analyze") =>
            \A a \in InScope(h) : \A t \in TitlesOf(h, a) :
                (/\ \E i \in 1..Len(h.data.agencies) :
                       /\ h.data.agencies[i].name = a
                       /\ \E j \in 1..Len(h.data.agencies[i].cfr_references) :
                            LET cref == h.data.agencies[i].cfr_references[j]
                            IN  cref.title = t /\ get_chapter(cref) = None
                 /\ Available(h, a, t, h.dates[1])
                 /\ WholeText(t, h.dates[1]) # <<>>)
                => t \in Analyzed(h, a)

\* C9: sections for a name that is not in the index returns an empty
\* mapping (a not-found response) and fetches no document.
C9_UnknownAgencyNotFound ==
    \A h \in Ended :
        (/\ h.op = "sections"
         /\ h.data \notin {Missing, Partial}
         /\ h.agency \notin map_keys(Index(h))) =>
            /\ h.response = "404"
            /\ \A k \in 1..Len(h.log) : h.log[k].key = AgenciesKey

\* the documents stored whole in the data folder
Stored == cache \ truncated

\* the calls of the engine
Calls == {"analyze", "sections", "compare"}

\* C10: with the calls made one after the other, an analyze, sections or
\* compare call requests a fetch only for a document that is not in the data
\* folder at that moment; no step of such a call removes a document or
\* empties or replaces a stored one; a document fetched with success is
\* never requested again by a later call.
C10_FetchOnlyMissing ==
    [][\A i \in DOMAIN handlers :
          (handlers[i].op \in Calls /\ handlers'[i] # handlers[i]) =>
             /\ cache \subseteq cache'
             /\ Stored \subseteq Stored'
             /\ (/\ handlers[i].pc = "fetch"
                 /\ handlers'[i].pc = "wait"
                 /\ handlers[i].target # AgenciesKey) =>
                    /\ ~file_exists(cache, handlers[i].target)
                    /\ handlers[i].target \notin fetched_ok]_vars

\* A's title 3 on D1 was fetched with success by an earlier call; the
\* second call, analyze for A on D1, finds it stored, fetches nothing and
\* returns A's record
C10_Witness ==
    \E h \in Ended :
        /\ served = 2
        /\ Returned(h, "analyze")
        /\ h.agency = "A"
        /\ h.dates = <<D1>>
        /\ h.data = Feed
        /\ h.log = <<>>
        /\ <<3, D1>> \in fetched_ok
        /\ <<3, D1>> \in Stored
        /\ "A" \in DOMAIN h.results

\* C5 as claimed: a two-date compare gives delta = word_count(end) -
\* word_count(start), and the same request with the dates reversed, made
\* afterwards, gives the negated delta, whatever the fetches did.
C5_ReverseNegates ==
    \A h \in Ended :
        (Returned(h, "compare") /\ Len(h.dates) = 2) =>
            /\ \A a \in DOMAIN DeltasOf(h.history) :
                  DeltasOf(h.history)[a] =
                     h.history[a][h.dates[2]].word_count
                       - h.history[a][h.dates[1]].word_count
            /\ (prev.agency = h.agency /\ prev.dates = <<h.dates[2], h.dates[1]>>) =>
                  \A a \in DOMAIN prev.deltas :
                     /\ a \in DOMAIN DeltasOf(h.history)
                     /\ DeltasOf(h.history)[a] = 0 - prev.deltas[a]

\* C5 amended: the reversed request gives the negated delta when no
\* document whose fetch failed during the first request is in the data
\* folder once the second request has run (it was not fetched with success
\* later in the first request nor by the second).
C5_ReverseNegatesSameCache ==
    \A h \in Ended :
        (Returned(h, "compare") /\ Len(h.dates) = 2) =>
            /\ \A a \in DOMAIN DeltasOf(h.history) :
                  DeltasOf(h.history)[a] =
                     h.history[a][h.dates[2]].word_count
                       - h.history[a][h.dates[1]].word_count
            /\ (/\ prev.agency = h.agency
                /\ prev.dates = <<h.dates[2], h.dates[1]>>
                /\ prev.failed \cap cache = {}) =>
                  \A a \in DOMAIN prev.deltas :
                     /\ a \in DOMAIN DeltasOf(h.history)
                     /\ DeltasOf(h.history)[a] = 0 - prev.deltas[a]

\* B on (D1, D2) then on (D2, D1): the first request fetched title 3 on both
\* dates and title 5 on D1 on demand, its fetch of title 5 on D2 failed and
\* fails again in the second request, which answers the negated non-zero
\* delta
C5_Witness ==
    \E h \in Ended :
        /\ Returned(h, "compare")
        /\ h.agency = "B"
        /\ h.dates = <<D2, D1>>
        /\ prev.agency = "B"
        /\ prev.dates = <<D1, D2>>
        /\ prev.fetched
        /\ prev.failed = {<<5, D2>>}
        /\ <<5, D2>> \in FailedKeys(h)
        /\ <<5, D2>> \notin cache
        /\ "B" \in DOMAIN prev.deltas
        /\ prev.deltas["B"] # 0
        /\ DeltasOf(h.history)["B"] = 0 - prev.deltas["B"]

\* C7: entries of the feed with the same name are merged: the documents
\* indexed for a name are the union of the documents of all its entries;
\* a name with no document is not indexed.
C7_SameNameMerged ==
    (fn.op = "build" /\ fn.done) =>
        \A n \in {"A", "B"} :
            LET docs == UNION {Range(ref_titles(fn.data.agencies[i].cfr_references)) :
                                  i \in {j \in 1..Len(fn.data.agencies) :
                                            fn.data.agencies[j].name = n}}
            IN  /\ n \in map_keys(fn.out) <=> docs # {}
                /\ n \in map_keys(fn.out) => Range(map_get(fn.out, n).titles) = docs

\* C8: sectioned extraction has one entry per chapter matching the filter
\* (case-insensitively; every chapter when the filter is none).
C8_OneEntryPerChapter ==
    (fn.op = "parse" /\ fn.done) =>
        Cardinality(DOMAIN fn.out) =
            Cardinality({i \in 1..Len(fn.doc.chapters) :
                            \/ fn.target = <<>>
                            \/ \E k \in 1..Len(fn.target) :
                                  /\ fn.target[k] # ""
                                  /\ Upper(fn.target[k]) =
                                        Upper(IF "N" \in DOMAIN fn.doc.chapters[i]
                                              THEN fn.doc.chapters[i].N ELSE "")})

\* the words of the distinct documents S of an agency, each counted once
RECURSIVE WordsOnce(_, _, _, _)
WordsOnce(h, a, S, d) ==
    IF S = {} THEN 0
    ELSE LET t == CHOOSE x \in S : TRUE
         IN  Len(FlatText(h, a, t, d)) + WordsOnce(h, a, S \ {t}, d)

\* C11: in every record of analyze each document appears at most once among
\* the contributing documents, titles_count is the number of distinct
\* contributing documents and each document's text is counted once in
\* word_count, also when the agency has several references to a document.
C11_DocumentCountedOnce ==
    \A h \in Ended :
        Returned(h, "analyze") =>
            \A a \in DOMAIN h.results :
                LET r == h.results[a]
                IN  /\ \A i, j \in 1..Len(r.titles_analyzed) :
                          r.titles_analyzed[i] = r.titles_analyzed[j] => i = j
                    /\ r.titles_count = Cardinality(Range(r.titles_analyzed))
                    /\ r.word_count =
                          WordsOnce(h, a, Range(r.titles_analyzed), h.dates[1])

\* the chapter codes of the agency's own feed entries (the entries indexed
\* under its name) for a title; none (the empty sequence) when there is none
own_chapters(data, a, title_num) ==
    Flatten([i \in 1..Len(data.agencies) |->
               IF data.agencies[i].name = a
               THEN entry_chapters(data.agencies[i], title_num)
               ELSE <<>>])

\* the text of the contributing documents under the agency's own chapters
RECURSIVE OwnText(_, _, _, _)
OwnText(data, a, titles, d) ==
    IF titles = <<>> THEN <<>>
    ELSE parse_title_xml(Remote(<<Head(titles), d>>),
                         own_chapters(data, a, Head(titles)), FALSE).val
         \o OwnText(data, a, Tail(titles), d)

\* the sections of a document under the agency's own chapters
OwnSections(data, a, t, d) ==
    parse_title_xml(Remote(<<t, d>>), own_chapters(data, a, t), TRUE).val

\* C12: the chapter filter analyze and sections use for an indexed agency
\* and a document is the chapter codes of the agency's own feed references
\* to it, also when the entry's display name differs from its name: the
\* text analyzed is that of its own chapters and every section returned is
\* a section of its own chapters.
C12_OwnChaptersUsed ==
    \A h \in Ended :
        /\ Returned(h, "analyze") =>
              \A a \in DOMAIN h.results :
                  h.results[a].checksum =
                     compute_checksum(OwnText(h.data, a, h.results[a].titles_analyzed,
                                              h.dates[1]))
        /\ (Returned(h, "sections") /\ h.agency \in map_keys(Index(h))) =>
              \A heading \in DOMAIN h.sections :
                  \E t \in TitlesOf(h, h.agency) :
                      /\ heading \in DOMAIN OwnSections(h.data, h.agency, t, h.dates[1])
                      /\ OwnSections(h.data, h.agency, t, h.dates[1])[heading]
                            = h.sections[heading]

====
